---- MODULE Spec2Model ----
(***************************************************************************)
(* Model of the helius-go client: construction (NewClient), the request    *)
(* execution core (doRequest over the retrying transport configured in     *)
(* NewClient, or over a caller supplied http.Client) and the operations    *)
(* that validate their arguments before calling the core.                  *)
(*                                                                         *)
(* Strings that end up in a URL are sequences of tokens: a token is either *)
(* one of the URL delimiters "/", "?", "&", "#", "=" or a run of ordinary  *)
(* characters ("assets", "api-key", "k", ...).  The empty string is << >>. *)
(***************************************************************************)
EXTENDS Integers, Sequences, FiniteSets, TLC

\* ---------------------------------------------------------------- bounds
MaxRetries == 2          \* largest argument given to WithMaxRetries
MaxPages == 3            \* most page calls of one GetAllTokenHolders run
MaxItems == 2            \* most holders on one page
MaxOpts == 3             \* most options given to one NewClient call
MaxDepth == 2            \* most fmt.Errorf("%w") layers around an error
MaxHolders == 2          \* most holders given to CalculateTopHolderStats
MaxAnswers == 4          \* most server answers to one of two concurrent calls

\* ------------------------------------------------------- program constants
DefaultMaxRetries == 3
DefaultTimeout == 10
StatusTooManyRequests == 429
StatusNotFound == 404
StatusUnauthorized == 401
StatusForbidden == 403
MaxPerPage == 10000

Mainnet == "mainnet"
Devnet == "devnet"
DefaultMainnetAPIURL == <<"https:", "/", "/", "api.helius.xyz", "/", "v0">>
DefaultDevnetAPIURL == <<"https:", "/", "/", "api-devnet.helius.xyz", "/", "v0">>
DefaultMainnetRPCURL == <<"https:", "/", "/", "mainnet.helius-rpc.com">>
DefaultDevnetRPCURL == <<"https:", "/", "/", "devnet.helius-rpc.com">>

\* ------------------------------------------------------------ environment
\* Status codes a server may answer with: both sides of 400, 429, both ends
\* of the 5xx band and the first code above it.
Statuses == {200, 399, 400, 429, 500, 599, 600}
\* Response bodies: one that decodes as JSON and one that does not.
Bodies == {"{}", "junk"}
\* Credentials given to NewClient (non-empty).
APIKeys == {<<"k">>, <<"k", "&", "x">>}
\* Errors of a context that is done ("" while it is live).
CtxErrs == {"context canceled", "context deadline exceeded"}

\* ------------------------------------------------------------- APIError
NoError == [kind |-> "nil", StatusCode |-> 0, Message |-> "", Path |-> << >>,
            wrap |-> "", cause |-> "", exhausted |-> FALSE]

APIError(code, msg, path) ==
    [kind |-> "APIError", StatusCode |-> code, Message |-> msg, Path |-> path,
     wrap |-> "", cause |-> "", exhausted |-> FALSE]

\* fmt.Errorf("<wrap>: %w", cause): an error that is not an APIError.
\* exhausted: the retrying transport gave up because no retries remained.
WrappedError(wrap, cause, exhausted) ==
    [kind |-> "error", StatusCode |-> 0, Message |-> "", Path |-> << >>,
     wrap |-> wrap, cause |-> cause, exhausted |-> exhausted]

\* ------------------------------------------------------------ NewClient
\* An Option is a function on the config; here the option's name and its
\* argument (s for string arguments, n for numeric ones, "" / 0 otherwise).
WithNetwork(network) == [name |-> "WithNetwork", s |-> <<network>>, n |-> 0]
WithAPIURL(url) == [name |-> "WithAPIURL", s |-> url, n |-> 0]
WithRPCURL(url) == [name |-> "WithRPCURL", s |-> url, n |-> 0]
WithTimeout(d) == [name |-> "WithTimeout", s |-> << >>, n |-> d]
WithMaxRetries(n) == [name |-> "WithMaxRetries", s |-> << >>, n |-> n]
WithHTTPClient(c) == [name |-> "WithHTTPClient", s |-> <<c>>, n |-> 0]
WithLogger(l) == [name |-> "WithLogger", s |-> <<l>>, n |-> 0]

\* opt(cfg)
ApplyOption(cfg, opt) ==
    CASE opt.name = "WithNetwork" -> [cfg EXCEPT !.network = opt.s[1]]
      [] opt.name = "WithAPIURL" -> [cfg EXCEPT !.apiURL = opt.s]
      [] opt.name = "WithRPCURL" -> [cfg EXCEPT !.rpcURL = opt.s]
      [] opt.name = "WithTimeout" -> [cfg EXCEPT !.timeout = opt.n]
      [] opt.name = "WithMaxRetries" -> [cfg EXCEPT !.maxRetries = opt.n]
      [] opt.name = "WithHTTPClient" -> [cfg EXCEPT !.httpClient = opt.s[1]]
      [] opt.name = "WithLogger" -> [cfg EXCEPT !.logger = opt.s[1]]

\* for _, opt := range opts { opt(cfg) }
RECURSIVE ApplyOptions(_, _)
ApplyOptions(cfg, opts) ==
    IF opts = << >> THEN cfg
    ELSE ApplyOptions(ApplyOption(cfg, Head(opts)), Tail(opts))

DefaultConfig ==
    [network |-> Mainnet, apiURL |-> << >>, rpcURL |-> << >>,
     timeout |-> DefaultTimeout, maxRetries |-> DefaultMaxRetries,
     httpClient |-> "nil", logger |-> "noopLogger"]

\* The network decides first: an explicit URL is used on mainnet only.
ResolveAPIURL_NetworkWins(cfg) ==
    IF cfg.network = Devnet THEN DefaultDevnetAPIURL
    ELSE IF cfg.apiURL = << >> THEN DefaultMainnetAPIURL
    ELSE cfg.apiURL

\* Set URLs based on network if not explicitly provided.
ResolveAPIURL(cfg) ==
    IF cfg.apiURL = << >>
    THEN (IF cfg.network = Devnet THEN DefaultDevnetAPIURL ELSE DefaultMainnetAPIURL)
    ELSE cfg.apiURL

ResolveRPCURL(cfg) ==
    IF cfg.rpcURL = << >>
    THEN (IF cfg.network = Devnet THEN DefaultDevnetRPCURL ELSE DefaultMainnetRPCURL)
    ELSE cfg.rpcURL

\* A plausible slip: the budget taken as a number of retries after the
\* first retry (one attempt too many).
RetryMaxOf_OffByOne(cfg) == cfg.maxRetries + 1

\* retryClient.RetryMax = cfg.maxRetries
RetryMaxOf(cfg) == cfg.maxRetries

\* The retrying client built whether or not the caller supplied a client.
HTTPClientOf_AlwaysRetry(cfg) ==
    [kind |-> "retry", RetryMax |-> RetryMaxOf(cfg), Timeout |-> cfg.timeout]

\* The http.Client the Client ends up with: the caller's, or the standard
\* client of a retrying client configured from cfg.
HTTPClientOf(cfg) ==
    IF cfg.httpClient # "nil"
    THEN [kind |-> "custom", RetryMax |-> 0, Timeout |-> 0]
    ELSE [kind |-> "retry", RetryMax |-> RetryMaxOf(cfg), Timeout |-> cfg.timeout]

\* NewClient without the check of the API key.
NewClient_NoKeyCheck(apiKey, opts) ==
    LET cfg == ApplyOptions(DefaultConfig, opts)
    IN [ok |-> TRUE,
        apiKey |-> apiKey,
        apiURL |-> ResolveAPIURL(cfg),
        rpcURL |-> ResolveRPCURL(cfg),
        httpClient |-> HTTPClientOf(cfg),
        logger |-> cfg.logger]

\* NewClient(apiKey, opts...): [client, err]
NewClient(apiKey, opts) ==
    IF apiKey = << >>
    THEN [ok |-> FALSE, err |-> APIError(400, "API key is required", <<"client">>)]
    ELSE LET cfg == ApplyOptions(DefaultConfig, opts)
         IN [ok |-> TRUE,
             apiKey |-> apiKey,
             apiURL |-> ResolveAPIURL(cfg),
             rpcURL |-> ResolveRPCURL(cfg),
             httpClient |-> HTTPClientOf(cfg),
             logger |-> cfg.logger]

\* ------------------------------------------------------------ operations
Ops == {"GetAsset", "GetAssetsByOwner", "SearchAssets", "GetAssetBatch",
        "GetTokenHolders", "GetPriorityFeeEstimate",
        "GetPriorityFeeEstimateForTransaction", "CreateWebhook", "GetWebhook",
        "ListWebhooks", "UpdateWebhook", "DeleteWebhook"}

\* The arguments of one call.  id: the identifying string (asset id, owner
\* address, mint, transaction, webhook id); isNil: the options / request
\* pointer is nil; n1: len(ids), len(accountKeys) or len(TransactionTypes);
\* n2: len(AccountAddresses); url: WebhookURL; whType: WebhookType; bad: the
\* payload built from the arguments is one json.Marshal cannot encode.
NoArgs == [id |-> << >>, isNil |-> FALSE, n1 |-> 0, n2 |-> 0, url |-> << >>, whType |-> "",
           bad |-> FALSE]

WebhookTypeEnhanced == "enhanced"

\* Validation without the check of DeleteWebhook's webhookID.
Validate_NoDeleteCheck(op, a) ==
    CASE op = "GetAsset" ->
           IF a.id = << >> THEN APIError(400, "asset ID is required", <<"/", "assets">>) ELSE NoError
      [] op = "GetAssetsByOwner" ->
           IF a.id = << >> THEN APIError(400, "owner address is required", <<"/", "assets">>) ELSE NoError
      [] op = "SearchAssets" ->
           IF a.isNil THEN APIError(400, "search options are required", <<"/", "assets", "/", "search">>) ELSE NoError
      [] op = "GetTokenHolders" ->
           IF a.id = << >> THEN APIError(400, "mint address is required", <<"/", "token-holders">>) ELSE NoError
      [] op = "GetPriorityFeeEstimate" ->
           IF a.n1 = 0 THEN APIError(400, "at least one account key is required", <<"/", "priority-fee">>) ELSE NoError
      [] op = "GetPriorityFeeEstimateForTransaction" ->
           IF a.id = << >> THEN APIError(400, "transaction is required", <<"/", "priority-fee">>) ELSE NoError
      [] op = "CreateWebhook" ->
           IF a.isNil THEN APIError(400, "request is required", <<"/", "webhooks">>)
           ELSE IF a.url = << >> THEN APIError(400, "webhookURL is required", <<"/", "webhooks">>)
           ELSE IF a.n1 = 0 THEN APIError(400, "at least one transactionType is required", <<"/", "webhooks">>)
           ELSE IF a.n2 = 0 THEN APIError(400, "at least one accountAddress is required", <<"/", "webhooks">>)
           ELSE NoError
      [] op = "GetWebhook" ->
           IF a.id = << >> THEN APIError(400, "webhookID is required", <<"/", "webhooks">>) ELSE NoError
      [] op = "UpdateWebhook" ->
           IF a.id = << >> THEN APIError(400, "webhookID is required", <<"/", "webhooks">>)
           ELSE IF a.isNil THEN APIError(400, "request is required", <<"/", "webhooks">>)
           ELSE NoError
      [] OTHER -> NoError

\* The checks each operation makes before it builds a request: the error it
\* returns, or NoError when the arguments pass.
Validate(op, a) ==
    CASE op = "GetAsset" ->
           IF a.id = << >> THEN APIError(400, "asset ID is required", <<"/", "assets">>) ELSE NoError
      [] op = "GetAssetsByOwner" ->
           IF a.id = << >> THEN APIError(400, "owner address is required", <<"/", "assets">>) ELSE NoError
      [] op = "SearchAssets" ->
           IF a.isNil THEN APIError(400, "search options are required", <<"/", "assets", "/", "search">>) ELSE NoError
      [] op = "GetTokenHolders" ->
           IF a.id = << >> THEN APIError(400, "mint address is required", <<"/", "token-holders">>) ELSE NoError
      [] op = "GetPriorityFeeEstimate" ->
           IF a.n1 = 0 THEN APIError(400, "at least one account key is required", <<"/", "priority-fee">>) ELSE NoError
      [] op = "GetPriorityFeeEstimateForTransaction" ->
           IF a.id = << >> THEN APIError(400, "transaction is required", <<"/", "priority-fee">>) ELSE NoError
      [] op = "CreateWebhook" ->
           IF a.isNil THEN APIError(400, "request is required", <<"/", "webhooks">>)
           ELSE IF a.url = << >> THEN APIError(400, "webhookURL is required", <<"/", "webhooks">>)
           ELSE IF a.n1 = 0 THEN APIError(400, "at least one transactionType is required", <<"/", "webhooks">>)
           ELSE IF a.n2 = 0 THEN APIError(400, "at least one accountAddress is required", <<"/", "webhooks">>)
           ELSE NoError
      [] op = "GetWebhook" ->
           IF a.id = << >> THEN APIError(400, "webhookID is required", <<"/", "webhooks">>) ELSE NoError
      [] op = "UpdateWebhook" ->
           IF a.id = << >> THEN APIError(400, "webhookID is required", <<"/", "webhooks">>)
           ELSE IF a.isNil THEN APIError(400, "request is required", <<"/", "webhooks">>)
           ELSE NoError
      [] op = "DeleteWebhook" ->
           IF a.id = << >> THEN APIError(400, "webhookID is required", <<"/", "webhooks">>) ELSE NoError
      [] OTHER -> NoError

\* GetAssetBatch without the check of the list's length.
ReturnsEarly_Never(op, a) == FALSE

\* GetAssetBatch returns an empty list for an empty list of ids, before
\* any request is built.
ReturnsEarly(op, a) == op = "GetAssetBatch" /\ a.n1 = 0

\* UpdateWebhook sent as a POST.
MethodOf_NoPut(op) ==
    CASE op \in {"GetWebhook", "ListWebhooks"} -> "GET"
      [] op = "DeleteWebhook" -> "DELETE"
      [] OTHER -> "POST"

\* The verb each operation passes to doRequest (doGet / doPost included).
MethodOf(op) ==
    CASE op \in {"GetWebhook", "ListWebhooks"} -> "GET"
      [] op = "UpdateWebhook" -> "PUT"
      [] op = "DeleteWebhook" -> "DELETE"
      [] OTHER -> "POST"

\* The relative path each operation passes to doRequest.
PathOf(op, a) ==
    CASE op \in {"GetAsset", "GetAssetsByOwner"} -> <<"/", "assets">>
      [] op = "SearchAssets" -> <<"/", "assets", "/", "search">>
      [] op = "GetAssetBatch" -> <<"/", "assets", "/", "batch">>
      [] op = "GetTokenHolders" -> <<"/", "token-holders">>
      [] op \in {"GetPriorityFeeEstimate", "GetPriorityFeeEstimateForTransaction"} ->
           <<"/", "priority-fee">>
      [] op \in {"CreateWebhook", "ListWebhooks"} -> <<"/", "webhooks">>
      [] OTHER -> <<"/", "webhooks", "/">> \o a.id   \* fmt.Sprintf("/webhooks/%s", webhookID)

\* CreateWebhook always sets the type to "enhanced".
DefaultedType_Overrides(op, a) ==
    IF op = "CreateWebhook" THEN WebhookTypeEnhanced ELSE a.whType

\* if req.WebhookType == "" { req.WebhookType = WebhookTypeEnhanced }: the
\* WebhookType of the request struct once validation has passed.
DefaultedType(op, a) ==
    IF op = "CreateWebhook" /\ a.whType = "" THEN WebhookTypeEnhanced ELSE a.whType

\* The body reader passed to doRequest: nil for GET and DELETE, otherwise
\* the JSON of the payload (CreateWebhook defaults an empty WebhookType).
BodyOf(op, a) ==
    IF MethodOf(op) \in {"GET", "DELETE"}
    THEN [present |-> FALSE, id |-> << >>, whType |-> ""]
    ELSE [present |-> TRUE, id |-> a.id, whType |-> DefaultedType(op, a)]

\* json.Marshal(reqBody) fails (operations without a payload marshal
\* nothing).
MarshalFails(op, a) == a.bad /\ BodyOf(op, a).present

\* The failure reported as a client-side validation error.
MarshalErrorOf_APIError(op, a) == APIError(400, "json: unsupported value", PathOf(op, a))

\* fmt.Errorf("marshal request: %w", err)
MarshalErrorOf(op, a) == WrappedError("marshal request", "json: unsupported value", FALSE)

\* The header set on every request.
ContentTypeOf_Always(body) == "application/json"

\* if body != nil { req.Header.Set("Content-Type", "application/json") }
ContentTypeOf(body) == IF body.present THEN "application/json" ELSE ""

\* json.Unmarshal(body, &v) succeeds.
Decodes(body) == body = "{}"

\* ------------------------------------------------------------------ URLs
\* fmt.Sprintf("%s%s?api-key=%s", c.apiURL, path, c.apiKey)
FormatURL(apiURL, path, apiKey) == apiURL \o path \o <<"?", "api-key", "=">> \o apiKey

\* Index of the first occurrence of token t in s, 0 when there is none.
IndexOf(s, t) ==
    IF \E j \in 1..Len(s) : s[j] = t
    THEN CHOOSE j \in 1..Len(s) : s[j] = t /\ \A h \in 1..(j - 1) : s[h] # t
    ELSE 0

\* strings.Cut(s, t): the part before the first t (all of s without t) ...
Before(s, t) == IF IndexOf(s, t) = 0 THEN s ELSE SubSeq(s, 1, IndexOf(s, t) - 1)
\* ... and the part after it (empty without t).
After(s, t) == IF IndexOf(s, t) = 0 THEN << >> ELSE SubSeq(s, IndexOf(s, t) + 1, Len(s))

\* r.URL.RawQuery as the server sees it: the fragment is not sent, the query
\* starts after the first "?".
RawQuery(url) == After(Before(url, "#"), "?")

\* r.URL.Query().Get(key): the value of the first "&"-separated pair whose
\* name is key, the empty string when there is none.
RECURSIVE QueryGet(_, _)
QueryGet(query, key) ==
    IF query = << >> THEN << >>
    ELSE LET pair == Before(query, "&")
         IN IF Before(pair, "=") = <<key>> THEN After(pair, "=")
            ELSE QueryGet(After(query, "&"), key)

\* ------------------------------------------------------------ CheckRetry
\* The retry client without the 5xx branch.
CheckRetry_No5xx(ctxerr, resp, err) ==
    IF ctxerr # "" THEN [retry |-> FALSE, err |-> ctxerr]
    ELSE IF err # "" THEN [retry |-> TRUE, err |-> err]
    ELSE IF resp.status = StatusTooManyRequests THEN [retry |-> TRUE, err |-> ""]
    ELSE [retry |-> FALSE, err |-> ""]

\* The retry client without the check of the context.
CheckRetry_NoCtx(ctxerr, resp, err) ==
    IF err # "" THEN [retry |-> TRUE, err |-> err]
    ELSE IF resp.status = StatusTooManyRequests THEN [retry |-> TRUE, err |-> ""]
    ELSE IF resp.status >= 500 THEN [retry |-> TRUE, err |-> ""]
    ELSE [retry |-> FALSE, err |-> ""]

\* retryClient.CheckRetry(ctx, resp, err): (shouldRetry, checkErr); ctxerr is
\* ctx.Err(), err the error of the attempt ("" for nil).
CheckRetry(ctxerr, resp, err) ==
    IF ctxerr # "" THEN [retry |-> FALSE, err |-> ctxerr]
    ELSE IF err # "" THEN [retry |-> TRUE, err |-> err]
    ELSE IF resp.status = StatusTooManyRequests THEN [retry |-> TRUE, err |-> ""]
    ELSE IF resp.status >= 500 THEN [retry |-> TRUE, err |-> ""]
    ELSE [retry |-> FALSE, err |-> ""]

\* doRequest with the threshold of an error status off by a band.
IsErrorStatus_From500(status) == status >= 500

\* if resp.StatusCode >= 400
IsErrorStatus(status) == status >= 400

\* doRequest putting the full URL into the error.
ErrorOfResponse_FullURL(resp, path, url) == APIError(resp.status, resp.body, url)

\* &APIError{StatusCode: resp.StatusCode, Message: string(respBody), Path: path}
ErrorOfResponse(resp, path, url) == APIError(resp.status, resp.body, path)

\* ------------------------------------------------------------------ state
VARIABLES
    opts,       \* the options NewClient was called with
    client,     \* the Client built by NewClient
    pc,         \* where the current call is: "idle", "do" (about to start an
                \* attempt), "inflight", "check" (attempt finished, CheckRetry
                \* not yet run), "backoff", "read" (httpClient.Do returned a
                \* response, body not yet read), "got" (body read), "done"
    call,       \* [op, a, reqType]: the operation called, its arguments as
                \* passed, and the WebhookType of the caller's request
                \* struct as the operation leaves it
    req,        \* the request doRequest built: [method, path, url, body, contentType]
    ctxErr,     \* ctx.Err() of the caller's context, "" while it is live
    early,      \* the context was done before the transport accepted a response
    i,          \* the retry loop's index
    attempt,    \* attempts the transport started for this call
    resp,       \* the response of the last attempt
    respBody,   \* what io.ReadAll read from the response doRequest got
    doErr,      \* the error of the last attempt, "" for nil
    outcomes,   \* what the server answered to each request sent: the status,
                \* 0 when the attempt ended without a response
    sent,       \* requests put on the wire for this call
    wire,       \* the last request put on the wire
    dr,         \* what doRequest returned: [body, err]
    result      \* what the operation returned: [value, err]

\* One run of GetAllTokenHolders.
VARIABLES
    gpc,        \* where the run is: "idle", "loop" (top of the for loop),
                \* "wait" (page request sent), "got" (GetTokenHolders
                \* returned), "done"
    mint,       \* the mint argument
    cursor,     \* the loop's cursor
    allHolders, \* the loop's accumulator
    pageCalls,  \* the options of each GetTokenHolders call: [Cursor, Limit]
    pageReqs,   \* the request bodies sent: [mint, cursor, limit]
    pages,      \* the pages the server returned: [items, cursor]
    pageRet,    \* what the last GetTokenHolders returned: [page, err]
    allRet      \* what GetAllTokenHolders returned: [holders, err]

\* One call of NewClient.
VARIABLES
    npc,        \* "input" before the call, "built" after it
    nkey,       \* the apiKey argument
    nopts,      \* the options
    nres        \* what NewClient returned

\* One error value handed to the APIError predicates and to IsAPIError.
VARIABLES
    epc,        \* "input" before the functions are applied, "applied" after
    eerr,       \* the error: the layers of its Unwrap chain, outermost first
    epreds,     \* the six predicates of the APIError in eerr
    eas         \* what IsAPIError(eerr) returned: [apiErr, ok]

\* Two calls of GetAllTokenHolders running concurrently on the client.  The
\* locals of a call (cursor, allHolders, the attempt counter of the retry
\* loop, the position of the body reader) live in cells, one per call.
VARIABLES
    cpc,        \* per call: "off", "loop", "send", "wait", "done"
    ccursor,    \* per cell: cursor
    cacc,       \* per cell: allHolders
    cattempt,   \* per cell: attempts made for the current page call
    cpos,       \* per cell: read position of the jsonReader of the page call
    csent,      \* per call: the requests it sent
    cans,       \* per call: the answers the server gave it
    cres        \* per call: what it returned

\* One call of CalculateTopHolderStats.
VARIABLES
    spc,        \* "input" before the call, "returned" or "panicked" after
    sholders,   \* the holders argument
    stopN,      \* the topN argument
    sstats      \* the TopHolderStats returned

\* The same call made twice against a server whose answer does not change.
VARIABLES
    stub,       \* the server's answer to the request: [status, body]
    runs,       \* calls completed so far
    first,      \* what the first call did: [call, wire, sent, attempt, result]
    second      \* what the second call did

callVars == <<opts, client, pc, call, req, ctxErr, early, i, attempt, resp, respBody, doErr,
              outcomes, sent, wire, dr, result>>
pageVars == <<gpc, mint, cursor, allHolders, pageCalls, pageReqs, pages, pageRet, allRet>>
newVars == <<npc, nkey, nopts, nres>>
errVars == <<epc, eerr, epreds, eas>>
concVars == <<cpc, ccursor, cacc, cattempt, cpos, csent, cans, cres>>
statVars == <<spc, sholders, stopN, sstats>>
twiceVars == <<stub, runs, first, second>>

vars == <<callVars, pageVars, newVars, errVars, concVars, statVars, twiceVars, twiceVars>>

Unread == "<unread>"
NoResp == [status |-> 0, body |-> ""]
NoBody == [present |-> FALSE, id |-> << >>, whType |-> ""]
NoReq == [method |-> "", path |-> << >>, url |-> << >>, body |-> NoBody, contentType |-> ""]
NoCall == [op |-> "", a |-> NoArgs, reqType |-> ""]
NoReturn == [body |-> "<nil>", err |-> NoError]
NoResult == [value |-> "<nil>", err |-> NoError]
NoRun == [call |-> NoCall, wire |-> NoReq, sent |-> 0, attempt |-> 0, result |-> NoResult]

NoPage == [items |-> << >>, cursor |-> ""]
NoPageReturn == [page |-> NoPage, err |-> NoError]
NoAllReturn == [holders |-> << >>, err |-> NoError]
NoClient == [ok |-> FALSE, err |-> NoError]
NoPreds == [IsNotFound |-> FALSE, IsRateLimited |-> FALSE, IsServerError |-> FALSE,
            IsClientError |-> FALSE, IsUnauthorized |-> FALSE, IsForbidden |-> FALSE]
NoAs == [apiErr |-> NoError, ok |-> FALSE]

\* No GetAllTokenHolders run in progress.
PagesIdle ==
    /\ gpc = "idle"
    /\ mint = << >>
    /\ cursor = ""
    /\ allHolders = << >>
    /\ pageCalls = << >>
    /\ pageReqs = << >>
    /\ pages = << >>
    /\ pageRet = NoPageReturn
    /\ allRet = NoAllReturn

\* No NewClient call under study.
ConstructIdle ==
    /\ npc = "idle"
    /\ nkey = << >>
    /\ nopts = << >>
    /\ nres = NoClient

\* No error value under study.
ErrorsIdle ==
    /\ epc = "idle"
    /\ eerr = << >>
    /\ epreds = NoPreds
    /\ eas = NoAs

Threads == {1, 2}
NoStats == [TotalHolders |-> 0, TopHolders |-> << >>, TopHoldersBalance |-> 0,
            TopHoldersPercent |-> 0, TotalSupply |-> 0]

\* No concurrent calls under study.
ConcIdle ==
    /\ cpc = [t \in Threads |-> "off"]
    /\ ccursor = [t \in Threads |-> ""]
    /\ cacc = [t \in Threads |-> << >>]
    /\ cattempt = [t \in Threads |-> 0]
    /\ cpos = [t \in Threads |-> 0]
    /\ csent = [t \in Threads |-> << >>]
    /\ cans = [t \in Threads |-> << >>]
    /\ cres = [t \in Threads |-> NoAllReturn]

\* No CalculateTopHolderStats call under study.
StatsIdle ==
    /\ spc = "idle"
    /\ sholders = << >>
    /\ stopN = 0
    /\ sstats = NoStats

\* No repeated call under study.
TwiceIdle ==
    /\ stub = NoResp
    /\ runs = 0
    /\ first = NoRun
    /\ second = NoRun

\* The option lists the client is built from.
OptionLists ==
    {<< >>, <<WithHTTPClient("custom")>>}
    \cup {<<WithMaxRetries(n)>> : n \in 0..MaxRetries}
    \cup {<<WithHTTPClient("custom"), WithMaxRetries(MaxRetries)>>,
          <<WithTimeout(30), WithHTTPClient("custom")>>}

\* The calls made on the client.
IDs == {<< >>, <<"a">>}
CallInputs ==
    {[op |-> o, a |-> [NoArgs EXCEPT !.id = d]] :
        o \in {"GetAsset", "GetAssetsByOwner", "GetTokenHolders",
               "GetPriorityFeeEstimateForTransaction", "GetWebhook", "DeleteWebhook"},
        d \in IDs}
    \cup {[op |-> "SearchAssets", a |-> [NoArgs EXCEPT !.isNil = b]] : b \in BOOLEAN}
    \cup {[op |-> o, a |-> [NoArgs EXCEPT !.n1 = n]] :
            o \in {"GetAssetBatch", "GetPriorityFeeEstimate"}, n \in 0..1}
    \cup {[op |-> "ListWebhooks", a |-> NoArgs]}
    \cup {[op |-> "UpdateWebhook", a |-> [NoArgs EXCEPT !.id = d, !.isNil = b]] :
            d \in IDs, b \in BOOLEAN}
    \cup {[op |-> "CreateWebhook", a |-> [NoArgs EXCEPT !.isNil = TRUE]]}
    \cup {[op |-> "CreateWebhook",
           a |-> [NoArgs EXCEPT !.url = u, !.n1 = n, !.n2 = m, !.whType = t]] :
            u \in {<< >>, <<"u">>}, n \in 0..1, m \in 0..1, t \in {"", "raw"}}
    \cup {[op |-> o,
           a |-> [NoArgs EXCEPT !.id = d, !.n1 = 1, !.n2 = 1, !.url = <<"u">>, !.bad = TRUE]] :
            o \in {p \in Ops : MethodOf(p) \in {"POST", "PUT"}}, d \in IDs}

\* No call in progress on the client.
CallsIdle ==
    /\ pc = "idle"
    /\ call = NoCall
    /\ req = NoReq
    /\ ctxErr = ""
    /\ early = FALSE
    /\ i = 0
    /\ attempt = 0
    /\ resp = NoResp
    /\ respBody = Unread
    /\ doErr = ""
    /\ outcomes = << >>
    /\ sent = 0
    /\ wire = NoReq
    /\ dr = NoReturn
    /\ result = NoResult

Init ==
    /\ opts \in OptionLists
    /\ client \in {NewClient(k, opts) : k \in APIKeys}
    /\ CallsIdle
    /\ PagesIdle
    /\ ConstructIdle
    /\ ErrorsIdle
    /\ ConcIdle
    /\ StatsIdle
    /\ TwiceIdle

\* http.NewRequest instead of http.NewRequestWithContext: the request is
\* bound to the background context.
ReqCtxErr_Background == ""

\* req.Context().Err(): the request carries the caller's context
\* (http.NewRequestWithContext(ctx, method, url, body)).
ReqCtxErr == ctxErr

\* What the operation makes of doRequest's return: the error unchanged, or
\* the decoded body (DeleteWebhook ignores the body).
ResultOf(op, ret) ==
    IF ret.err # NoError THEN [value |-> "<nil>", err |-> ret.err]
    ELSE IF op = "DeleteWebhook" THEN [value |-> "<nil>", err |-> NoError]
    ELSE IF Decodes(ret.body) THEN [value |-> ret.body, err |-> NoError]
    ELSE [value |-> "<nil>", err |-> WrappedError("decode response", "invalid JSON", FALSE)]

\* doRequest returns ret and the operation returns to its caller.
Finish(ret) ==
    /\ dr' = ret
    /\ result' = ResultOf(call.op, ret)
    /\ pc' = "done"

\* The credential wiped from the receiver once it is in the URL.
ReceiverAfter_ClearsKey(c, url) == [c EXCEPT !.apiKey = << >>]

\* The receiver c after doRequest built the request: url is a local
\* (url := fmt.Sprintf(...)); no field of c is assigned anywhere in
\* doRequest, doGet, doPost or the operations.
ReceiverAfter(c, url) == c

\* ---------------------------------------------------------------- actions
\* An operation is called with arguments in.a and a context whose Err() is c
\* ("" for a live context).  A failed validation, GetAssetBatch's empty
\* list and a payload that cannot be marshalled return at once; otherwise
\* doRequest builds the request.
Call(in, c) ==
    /\ pc = "idle"
    /\ call' = [op |-> in.op, a |-> in.a,
                reqType |-> IF Validate(in.op, in.a) = NoError
                            THEN DefaultedType(in.op, in.a) ELSE in.a.whType]
    /\ ctxErr' = c
    /\ UNCHANGED <<pageVars, newVars, errVars, concVars, statVars, twiceVars, opts, i, attempt, resp, respBody, doErr, outcomes, sent, wire>>
    /\ client' = IF \/ Validate(in.op, in.a) # NoError
                    \/ ReturnsEarly(in.op, in.a)
                    \/ MarshalFails(in.op, in.a)
                 THEN client
                 ELSE ReceiverAfter(client, FormatURL(client.apiURL, PathOf(in.op, in.a), client.apiKey))
    /\ IF Validate(in.op, in.a) # NoError
       THEN /\ result' = [value |-> "<nil>", err |-> Validate(in.op, in.a)]
            /\ pc' = "done"
            /\ UNCHANGED <<req, dr, early>>
       ELSE IF ReturnsEarly(in.op, in.a)
       THEN /\ result' = [value |-> "[]", err |-> NoError]
            /\ pc' = "done"
            /\ UNCHANGED <<req, dr, early>>
       ELSE IF MarshalFails(in.op, in.a)
       THEN /\ result' = [value |-> "<nil>", err |-> MarshalErrorOf(in.op, in.a)]
            /\ pc' = "done"
            /\ UNCHANGED <<req, dr, early>>
       ELSE /\ req' = [method |-> MethodOf(in.op),
                       path |-> PathOf(in.op, in.a),
                       url |-> FormatURL(client.apiURL, PathOf(in.op, in.a), client.apiKey),
                       body |-> BodyOf(in.op, in.a),
                       contentType |-> ContentTypeOf(BodyOf(in.op, in.a))]
            /\ early' = (c # "")
            /\ pc' = "do"
            /\ UNCHANGED <<dr, result>>

\* c.httpClient.Do(req) starts an attempt.  The transport looks at the
\* request's context before it sends anything: with a context that is done
\* the attempt ends with the context's error and nothing is sent.
BeginAttempt ==
    /\ pc = "do"
    /\ attempt' = attempt + 1
    /\ UNCHANGED <<pageVars, newVars, errVars, concVars, statVars, twiceVars, client, opts, call, req, ctxErr, early, i, outcomes, respBody>>
    /\ IF ReqCtxErr # ""
       THEN /\ doErr' = ReqCtxErr
            /\ resp' = NoResp
            /\ UNCHANGED <<sent, wire>>
            /\ IF client.httpClient.kind = "retry"
               THEN pc' = "check" /\ UNCHANGED <<dr, result>>
               ELSE Finish([body |-> "<nil>", err |-> WrappedError("do request", ReqCtxErr, FALSE)])
       ELSE /\ sent' = sent + 1
            /\ wire' = req
            /\ pc' = "inflight"
            /\ UNCHANGED <<resp, respBody, doErr, dr, result>>

\* The server answers the request in flight.
Respond(status, body) ==
    /\ pc = "inflight"
    /\ resp' = [status |-> status, body |-> body]
    /\ doErr' = ""
    /\ outcomes' = Append(outcomes, status)
    /\ pc' = IF client.httpClient.kind = "retry" THEN "check" ELSE "read"
    /\ UNCHANGED <<pageVars, newVars, errVars, concVars, statVars, twiceVars, client, opts, call, req, ctxErr, early, i, attempt, respBody,
                   sent, wire, dr, result>>

\* The attempt in flight ends without a response: a transport failure, or
\* the context's error when the context is done.
TransportFail(e) ==
    /\ pc = "inflight"
    /\ e = "connection reset" \/ (e # "" /\ e = ReqCtxErr)
    /\ resp' = NoResp
    /\ doErr' = e
    /\ outcomes' = Append(outcomes, 0)
    /\ UNCHANGED <<pageVars, newVars, errVars, concVars, statVars, twiceVars, client, opts, call, req, ctxErr, early, i, attempt, respBody,
                   sent, wire>>
    /\ IF client.httpClient.kind = "retry"
       THEN pc' = "check" /\ UNCHANGED <<dr, result>>
       ELSE Finish([body |-> "<nil>", err |-> WrappedError("do request", e, FALSE)])

\* The retrying transport after an attempt: CheckRetry, then the budget.
\* It backs off for another attempt, returns the response (no retry wanted,
\* no error), or returns an error and no response: the error of CheckRetry,
\* else the error of the attempt, else only "giving up after n attempt(s)".
Decide ==
    /\ pc = "check"
    /\ client.httpClient.kind = "retry"
    /\ UNCHANGED <<pageVars, newVars, errVars, concVars, statVars, twiceVars, client, opts, call, req, ctxErr, early, i, attempt, resp, respBody, doErr,
                   outcomes, sent, wire>>
    /\ LET cr == CheckRetry(ReqCtxErr, resp, doErr)
           remain == client.httpClient.RetryMax - i
       IN IF cr.retry /\ remain > 0
          THEN pc' = "backoff" /\ UNCHANGED <<dr, result>>
          ELSE IF ~cr.retry /\ doErr = "" /\ cr.err = ""
          THEN pc' = "read" /\ UNCHANGED <<dr, result>>
          ELSE Finish([body |-> "<nil>",
                       err |-> WrappedError("do request",
                                            IF cr.err # "" THEN cr.err ELSE doErr,
                                            cr.retry)])

\* The backoff timer fires: the loop goes round.
BackoffElapsed ==
    /\ pc = "backoff"
    /\ i' = i + 1
    /\ pc' = "do"
    /\ UNCHANGED <<pageVars, newVars, errVars, concVars, statVars, twiceVars, client, opts, call, req, ctxErr, early, attempt, resp, respBody, doErr,
                   outcomes, sent, wire, dr, result>>

\* The context is done during the backoff: the transport returns its error.
BackoffCancelled ==
    /\ pc = "backoff"
    /\ ReqCtxErr # ""
    /\ Finish([body |-> "<nil>", err |-> WrappedError("do request", ReqCtxErr, FALSE)])
    /\ UNCHANGED <<pageVars, newVars, errVars, concVars, statVars, twiceVars, client, opts, call, req, ctxErr, early, i, attempt, resp, respBody, doErr,
                   outcomes, sent, wire>>

\* io.ReadAll(resp.Body) succeeds.
ReadBody ==
    /\ pc = "read"
    /\ respBody' = resp.body
    /\ pc' = "got"
    /\ UNCHANGED <<pageVars, newVars, errVars, concVars, statVars, twiceVars, client, opts, call, req, ctxErr, early, i, attempt, resp, doErr,
                   outcomes, sent, wire, dr, result>>

\* doRequest returns: an APIError and no body for an error status, the body
\* otherwise.
Classify ==
    /\ pc = "got"
    /\ IF IsErrorStatus(resp.status)
       THEN Finish([body |-> "<nil>",
                    err |-> ErrorOfResponse([status |-> resp.status, body |-> respBody],
                                            req.path, req.url)])
       ELSE Finish([body |-> respBody, err |-> NoError])
    /\ UNCHANGED <<pageVars, newVars, errVars, concVars, statVars, twiceVars, client, opts, call, req, ctxErr, early, i, attempt, resp, respBody, doErr,
                   outcomes, sent, wire>>

\* io.ReadAll(resp.Body) fails: the connection breaks, or the context is done.
ReadFails(e) ==
    /\ pc = "read"
    /\ e = "unexpected EOF" \/ (e # "" /\ e = ReqCtxErr)
    /\ Finish([body |-> "<nil>", err |-> WrappedError("read response", e, FALSE)])
    /\ UNCHANGED <<pageVars, newVars, errVars, concVars, statVars, twiceVars, client, opts, call, req, ctxErr, early, i, attempt, resp, respBody, doErr,
                   outcomes, sent, wire>>

\* The caller cancels the context, or its deadline expires, during the call.
Cancel(e) ==
    /\ pc \in {"do", "inflight", "check", "backoff", "read"}
    /\ ctxErr = ""
    /\ ctxErr' = e
    /\ early' = (early \/ pc # "read")
    /\ UNCHANGED <<pageVars, newVars, errVars, concVars, statVars, twiceVars, client, opts, pc, call, req, i, attempt, resp, respBody, doErr, outcomes,
                   sent, wire, dr, result>>

\* The caller has the result; the call's locals are gone.
Return ==
    /\ pc = "done"
    /\ pc' = "idle"
    /\ call' = NoCall
    /\ req' = NoReq
    /\ ctxErr' = ""
    /\ early' = FALSE
    /\ i' = 0
    /\ attempt' = 0
    /\ resp' = NoResp
    /\ respBody' = Unread
    /\ doErr' = ""
    /\ outcomes' = << >>
    /\ sent' = 0
    /\ wire' = NoReq
    /\ dr' = NoReturn
    /\ result' = NoResult
    /\ UNCHANGED <<pageVars, newVars, errVars, concVars, statVars, twiceVars, client, opts>>

Next ==
    \/ \E in \in CallInputs, c \in {""} \cup CtxErrs : Call(in, c)
    \/ BeginAttempt
    \/ \E status \in Statuses, body \in Bodies : Respond(status, body)
    \/ \E e \in {"connection reset"} \cup CtxErrs : TransportFail(e)
    \/ Decide
    \/ BackoffElapsed
    \/ BackoffCancelled
    \/ \E e \in CtxErrs : Cancel(e)
    \/ ReadBody
    \/ Classify
    \/ \E e \in {"unexpected EOF"} \cup CtxErrs : ReadFails(e)
    \/ Return

Spec == Init /\ [][Next]_vars

TypeOK ==
    /\ pc \in {"idle", "do", "inflight", "check", "backoff", "read", "got", "done"}
    /\ ctxErr \in {""} \cup CtxErrs
    /\ attempt \in Nat /\ sent \in Nat /\ i \in Nat
    /\ sent <= attempt

\* ----------------------------------------------------------------- claims
\* The client uses the retrying transport NewClient builds by default.
Retrying == "WithHTTPClient" \notin {opts[j].name : j \in 1..Len(opts)}

\* The retry budget the caller configured (WithMaxRetries, else the default).
R == ApplyOptions(DefaultConfig, opts).maxRetries

\* The call went through doRequest.
ViaDoRequest == req # NoReq

\* A status the spec names as retryable: 429 or any 5xx.
RetryableStatus(st) == st = 429 \/ (st >= 500 /\ st <= 599)

\* C1: with the retrying transport and a context that stays live, a call
\* whose first k attempts (k <= R) were answered with a retryable status and
\* whose attempt k+1 was answered with a status below 400 made exactly k+1
\* attempts and returned the body of attempt k+1 with a nil error; and no
\* call stops on a retryable status while retries remain.
C1_RetryUntilSuccess ==
    (pc = "done" /\ ViaDoRequest /\ Retrying /\ ctxErr = "" /\ dr.err.wrap # "read response")
    => /\ \A k \in 0..R :
            ( /\ Len(outcomes) >= k + 1
              /\ \A j \in 1..k : RetryableStatus(outcomes[j])
              /\ outcomes[k + 1] \in 1..399 )
            => /\ Len(outcomes) = k + 1
               /\ attempt = k + 1
               /\ sent = k + 1
               /\ dr = [body |-> resp.body, err |-> NoError]
       /\ (Len(outcomes) >= 1 /\ RetryableStatus(outcomes[Len(outcomes)]))
            => Len(outcomes) = R + 1

\* C1 witness: 500, 500, 200 succeeds after exactly three attempts.
C1_Witness ==
    /\ pc = "done" /\ Retrying /\ ctxErr = ""
    /\ outcomes = <<500, 500, 200>>
    /\ attempt = 3 /\ sent = 3
    /\ dr = [body |-> "{}", err |-> NoError]

\* C2: one call makes at most R + 1 attempts (one with a caller supplied
\* http.Client); with R = 0 it makes exactly one, and a retryable failure of
\* that attempt fails the call.
C2_AttemptsBounded ==
    /\ attempt <= (IF Retrying THEN R + 1 ELSE 1)
    /\ sent <= attempt
    /\ (pc = "done" /\ ViaDoRequest /\ R = 0)
         => /\ attempt = 1
            /\ (Len(outcomes) = 1 /\ (outcomes[1] = 0 \/ RetryableStatus(outcomes[1])) /\ Retrying)
                 => dr.err # NoError

\* C2 witness: R = 0, the single attempt is answered 500 and the call fails.
C2_Witness ==
    /\ pc = "done" /\ Retrying /\ R = 0
    /\ outcomes = <<500>> /\ attempt = 1 /\ dr.err # NoError

\* C3: the transport goes on to another attempt only if retries remain and
\* the attempt ended in a transport failure, a 429 or a status in 500..599.
C3_RetryOnlyOnTransient ==
    [][(pc = "check" /\ pc' = "backoff")
          => /\ attempt <= R
             /\ (doErr # "" \/ resp.status = 429 \/ (resp.status >= 500 /\ resp.status <= 599))]_vars

\* C4: when the retry budget is exhausted the caller receives the last
\* outcome: an APIError with the status, body and path of the last response
\* when that response had a status >= 400, the transport error when the last
\* attempt failed in the transport.
C4_LastOutcomeSurfaced ==
    (pc = "done" /\ ViaDoRequest /\ Retrying /\ ctxErr = "" /\ attempt = R + 1
        /\ Len(outcomes) = R + 1 /\ dr.err.wrap # "read response")
    => /\ outcomes[R + 1] >= 400
            => dr.err = APIError(resp.status, resp.body, PathOf(call.op, call.a))
       /\ outcomes[R + 1] = 0
            => (dr.err.kind = "error" /\ dr.err.cause = doErr /\ doErr # "")

\* C5: a context that is done before the retrying transport accepted a
\* response (before the first attempt, with an attempt in flight, before
\* CheckRetry ran or during the backoff) makes the call fail with an error
\* whose cause is the context's error and that is not a retry exhaustion.
C5_CancellationWins ==
    (pc = "done" /\ Retrying /\ early)
    => /\ ctxErr \in CtxErrs
       /\ dr.err.kind = "error"
       /\ dr.err.cause = ctxErr
       /\ ~dr.err.exhausted
       /\ result.err = dr.err

\* C5 witness: the deadline expires with retries left after a 500.
C5_Witness ==
    /\ pc = "done" /\ Retrying /\ early
    /\ ctxErr = "context deadline exceeded"
    /\ outcomes = <<500>> /\ R >= 1
    /\ dr.err.cause = "context deadline exceeded"

\* C6: once the context is done no request is put on the wire for the call.
C6_NoRequestAfterDone ==
    [][ctxErr # "" => (sent' <= sent /\ (pc # "done" => wire' = wire))]_vars

\* C6 witness: the context is done after the first attempt; the second
\* attempt of the retry loop sends nothing although retries remain.
C6_Witness ==
    /\ pc = "done" /\ Retrying /\ ctxErr # ""
    /\ R >= 1 /\ attempt = 2 /\ sent = 1

\* C7: when doRequest has a response (status and body read) with a status
\* >= 400 it returns no body and an APIError with that status, the body as
\* the message and the operation's relative path.
C7_ErrorStatusGivesAPIError ==
    (pc = "done" /\ respBody # Unread /\ resp.status >= 400)
    => /\ dr.body = "<nil>"
       /\ dr.err.kind = "APIError"
       /\ dr.err.StatusCode = resp.status
       /\ dr.err.Message = respBody
       /\ dr.err.Path = PathOf(call.op, call.a)

\* C7 witness: a 400 with a body that is not JSON.
C7_Witness ==
    /\ pc = "done" /\ respBody = "junk" /\ resp.status = 400
    /\ call.op = "GetWebhook"
    /\ dr.err = APIError(400, "junk", <<"/", "webhooks", "/", "a">>)

\* C8: when doRequest has a response with a status below 400 it returns the
\* body unchanged and a nil error; doRequest returns an APIError exactly
\* when it has a response with a status >= 400.
C8_SuccessPassesBody ==
    (pc = "done" /\ ViaDoRequest)
    => /\ (respBody # Unread /\ resp.status < 400)
            => dr = [body |-> resp.body, err |-> NoError]
       /\ dr.err.kind = "APIError" <=> (respBody # Unread /\ resp.status >= 400)

\* C8 witness: a 399 whose body does not decode is passed through.
C8_Witness ==
    /\ pc = "done" /\ resp.status = 399 /\ respBody = "junk"
    /\ dr = [body |-> "junk", err |-> NoError]

\* The calls of C9: an operation called without its required parameter.
MissingRequired(c) ==
    \/ c.op \in {"GetAsset", "GetAssetsByOwner", "GetTokenHolders",
                 "GetPriorityFeeEstimateForTransaction", "GetWebhook",
                 "DeleteWebhook"} /\ c.a.id = << >>
    \/ c.op = "SearchAssets" /\ c.a.isNil
    \/ c.op = "GetPriorityFeeEstimate" /\ c.a.n1 = 0
    \/ c.op = "CreateWebhook" /\ (c.a.isNil \/ c.a.url = << >> \/ c.a.n1 = 0 \/ c.a.n2 = 0)
    \/ c.op = "UpdateWebhook" /\ (c.a.id = << >> \/ c.a.isNil)

\* C9: an operation called without a required parameter fails with an
\* APIError of status 400 and no request is made.
C9_ValidationBeforeRequest ==
    (pc # "idle" /\ MissingRequired(call))
    => /\ pc = "done"
       /\ result.err.kind = "APIError"
       /\ result.err.StatusCode = 400
       /\ sent = 0 /\ attempt = 0 /\ wire = NoReq

\* C9 witness: DeleteWebhook("").
C9_Witness ==
    /\ pc = "done" /\ call.op = "DeleteWebhook" /\ call.a.id = << >>
    /\ result.err.StatusCode = 400 /\ sent = 0

\* C10: every request on the wire targets apiURL + path + "?api-key=" +
\* credential, and the server reads the credential as the api-key parameter.
C10_CredentialInEveryRequest ==
    wire # NoReq
    => /\ wire.url = client.apiURL \o PathOf(call.op, call.a) \o <<"?", "api-key", "=">> \o client.apiKey
       /\ QueryGet(RawQuery(wire.url), "api-key") = client.apiKey

\* ====================================================== GetAllTokenHolders
\* Token holders, and the pages a server may answer with: up to MaxItems
\* holders and a cursor ("" on the last page).
Holders == {"h1", "h2"}
Cursors == {"", "p2", "p3"}
ItemLists == UNION {[1..n -> Holders] : n \in 0..MaxItems}
Pages == {[items |-> its, cursor |-> c] : its \in ItemLists, c \in Cursors}
Mints == {<< >>, <<"m">>}

\* What doRequest hands back to GetTokenHolders: a body that decodes to a
\* page, a body that does not decode, or an error (an error status, the
\* retrying transport giving up, a cancelled context).
PageAnswers ==
    {[decodes |-> TRUE, page |-> p, err |-> NoError] : p \in Pages}
    \cup {[decodes |-> FALSE, page |-> NoPage, err |-> NoError]}
    \cup {[decodes |-> FALSE, page |-> NoPage, err |-> e] :
            e \in {APIError(StatusTooManyRequests, "{}", <<"/", "token-holders">>),
                   WrappedError("do request", "giving up", TRUE),
                   WrappedError("do request", "context canceled", FALSE)}}

\* reqBody without the cursor of the options.
ReqBodyOf_NoCursor(m, o) ==
    [mint |-> m,
     hasCursor |-> FALSE, cursor |-> "",
     hasLimit |-> o.Limit > 0, limit |-> IF o.Limit > 0 THEN o.Limit ELSE 0]

\* reqBody of GetTokenHolders: the cursor only when non-empty, the limit
\* only when positive.
ReqBodyOf(m, o) ==
    [mint |-> m,
     hasCursor |-> o.Cursor # "", cursor |-> o.Cursor,
     hasLimit |-> o.Limit > 0, limit |-> IF o.Limit > 0 THEN o.Limit ELSE 0]

\* What GetTokenHolders returns for doRequest's return ans.
PageReturnOf(ans) ==
    IF ans.err # NoError THEN [page |-> NoPage, err |-> ans.err]
    ELSE IF ~ans.decodes
         THEN [page |-> NoPage,
               err |-> WrappedError("decode response", "invalid JSON", FALSE)]
    ELSE [page |-> ans.page, err |-> NoError]

\* The loop stops on an empty cursor only.
StopsAt_CursorOnly(page) == page.cursor = ""

\* if page.Cursor == "" || len(page.TokenHolders) == 0 { break }
StopsAt(page) == page.cursor = "" \/ Len(page.items) = 0

\* Keeps the last page only.
Accumulate_Replace(all, page) == page.items

\* allHolders = append(allHolders, page.TokenHolders...)
Accumulate(all, page) == all \o page.items

\* return allHolders, err
ErrorReturn_Partial(all, err) == [holders |-> all, err |-> err]

\* return nil, err
ErrorReturn(all, err) == [holders |-> << >>, err |-> err]

\* The failed page is asked for again.
AfterError_Continue(err) == "loop"

\* if err != nil { return ... }: a failed page call ends the run.
AfterError(err) == "done"

\* GetAllTokenHolders(ctx, m) is called.
GetAllTokenHolders(m) ==
    /\ gpc = "idle"
    /\ gpc' = "loop"
    /\ mint' = m
    /\ cursor' = ""
    /\ allHolders' = << >>
    /\ UNCHANGED <<callVars, newVars, errVars, concVars, statVars, twiceVars, pageCalls, pageReqs, pages, pageRet, allRet>>

\* Top of the loop: GetTokenHolders(ctx, mint, {cursor, 10000}).  An empty
\* mint returns the validation error without a request.
PageCall ==
    /\ gpc = "loop"
    /\ Len(pageCalls) < MaxPages
    /\ LET o == [Cursor |-> cursor, Limit |-> MaxPerPage]
           v == Validate("GetTokenHolders", [NoArgs EXCEPT !.id = mint])
       IN /\ pageCalls' = Append(pageCalls, o)
          /\ IF v # NoError
             THEN /\ pageRet' = [page |-> NoPage, err |-> v]
                  /\ gpc' = "got"
                  /\ UNCHANGED pageReqs
             ELSE /\ pageReqs' = Append(pageReqs, ReqBodyOf(mint, o))
                  /\ gpc' = "wait"
                  /\ UNCHANGED pageRet
    /\ UNCHANGED <<callVars, newVars, errVars, concVars, statVars, twiceVars, mint, cursor, allHolders, pages, allRet>>

\* doRequest returns ans and GetTokenHolders returns.
PageAnswer(ans) ==
    /\ gpc = "wait"
    /\ gpc' = "got"
    /\ pageRet' = PageReturnOf(ans)
    /\ pages' = IF PageReturnOf(ans).err = NoError THEN Append(pages, ans.page) ELSE pages
    /\ UNCHANGED <<callVars, newVars, errVars, concVars, statVars, twiceVars, mint, cursor, allHolders, pageCalls, pageReqs, allRet>>

\* The rest of the loop body: return on an error, else accumulate and
\* either leave the loop and return, or take the page's cursor.
AfterPage ==
    /\ gpc = "got"
    /\ IF pageRet.err # NoError
       THEN /\ allRet' = ErrorReturn(allHolders, pageRet.err)
            /\ gpc' = AfterError(pageRet.err)
            /\ UNCHANGED <<allHolders, cursor>>
       ELSE /\ allHolders' = Accumulate(allHolders, pageRet.page)
            /\ IF StopsAt(pageRet.page)
               THEN /\ allRet' = [holders |-> allHolders', err |-> NoError]
                    /\ gpc' = "done"
                    /\ UNCHANGED cursor
               ELSE /\ cursor' = pageRet.page.cursor
                    /\ gpc' = "loop"
                    /\ UNCHANGED allRet
    /\ UNCHANGED <<callVars, newVars, errVars, concVars, statVars, twiceVars, mint, pageCalls, pageReqs, pages, pageRet>>

InitPages ==
    /\ opts = << >>
    /\ client = NewClient(<<"k">>, opts)
    /\ CallsIdle
    /\ PagesIdle
    /\ ConstructIdle
    /\ ErrorsIdle
    /\ ConcIdle
    /\ StatsIdle
    /\ TwiceIdle

NextPages ==
    \/ \E m \in Mints : GetAllTokenHolders(m)
    \/ PageCall
    \/ \E ans \in PageAnswers : PageAnswer(ans)
    \/ AfterPage

SpecPages == InitPages /\ [][NextPages]_vars

\* A page after which, by the specification, no further page is fetched.
FinalPage(page) == page.cursor = "" \/ page.items = << >>

\* C11: GetAllTokenHolders makes one GetTokenHolders call per page, stops
\* at the first page that has an empty cursor or no items (also when that
\* page has a non-empty cursor and no items), and makes no call after it.
C11_StopsAtFirstFinalPage ==
    /\ Len(pages) <= Len(pageCalls)
    /\ Len(pageCalls) <= Len(pages) + 1
    /\ \A k \in 1..Len(pages) :
          FinalPage(pages[k]) => k = Len(pages) /\ Len(pageCalls) = k
    /\ gpc = "done" /\ allRet.err = NoError
          => /\ pages # << >>
             /\ FinalPage(pages[Len(pages)])
             /\ Len(pageCalls) = Len(pages)

\* Pages of 2, 2 and 1 holders with cursors "p2", "p3", "": three calls.
C11_Witness ==
    /\ gpc = "done"
    /\ allRet.err = NoError
    /\ Len(pageCalls) = 3
    /\ Len(pages) = 3
    /\ <<Len(pages[1].items), Len(pages[2].items), Len(pages[3].items)>> = <<2, 2, 1>>
    /\ <<pages[1].cursor, pages[2].cursor, pages[3].cursor>> = <<"p2", "p3", "">>

RECURSIVE Flatten(_)
Flatten(ps) == IF ps = << >> THEN << >> ELSE Head(ps).items \o Flatten(Tail(ps))

\* C12: a successful GetAllTokenHolders returns the concatenation, in fetch
\* order, of the items of every page fetched, the final page included.
C12_ResultIsConcatenation ==
    /\ gpc \in {"loop", "wait"} => allHolders = Flatten(pages)
    /\ gpc = "done" /\ allRet.err = NoError => allRet.holders = Flatten(pages)

C12_Witness ==
    /\ gpc = "done"
    /\ allRet.err = NoError
    /\ Len(pages) = 3
    /\ pages[1].items = <<"h1", "h2">>
    /\ pages[2].items = <<"h2">>
    /\ pages[3].items = <<"h2", "h1">>
    /\ allRet.holders = <<"h1", "h2", "h2", "h2", "h1">>

\* C13: when a page call fails, GetAllTokenHolders makes no further page
\* call and returns no items and that call's error, unchanged.
C13_PageErrorAborts ==
    pageRet.err # NoError
        => /\ gpc \in {"got", "done"}
           /\ Len(pageCalls) = Len(pages) + 1
           /\ gpc = "done" => allRet = [holders |-> << >>, err |-> pageRet.err]

\* The third page call fails after two pages of holders were accumulated.
C13_Witness ==
    /\ gpc = "done"
    /\ pageRet.err = APIError(StatusTooManyRequests, "{}", <<"/", "token-holders">>)
    /\ Len(pages) = 2
    /\ allHolders = <<"h1", "h2", "h1">>
    /\ allRet.holders = << >>
    /\ allRet.err = pageRet.err

\* ================================================================ NewClient
\* The options a caller may pass, in any order and with repetitions:
\* networks (a third, unknown one included), custom and empty URLs,
\* timeouts and retry counts on both sides of zero.
CustomAPIURL == <<"http:", "/", "/", "api.test">>
CustomRPCURL == <<"http:", "/", "/", "rpc.test">>
TimeoutArgs == {-1, 0, 30}
Options ==
    {WithNetwork(n) : n \in {Mainnet, Devnet, "testnet"}}
    \cup {WithAPIURL(u) : u \in {<< >>, CustomAPIURL}}
    \cup {WithRPCURL(u) : u \in {<< >>, CustomRPCURL}}
    \cup {WithTimeout(d) : d \in TimeoutArgs}
    \cup {WithMaxRetries(n) : n \in -1..MaxRetries}
    \cup {WithHTTPClient("custom"), WithLogger("custom")}
NewOptionLists == UNION {[1..n -> Options] : n \in 0..MaxOpts}

\* client, err := NewClient(nkey, nopts...)
Construct ==
    /\ npc = "input"
    /\ npc' = "built"
    /\ nres' = NewClient(nkey, nopts)
    /\ UNCHANGED <<callVars, pageVars, errVars, concVars, statVars, twiceVars, nkey, nopts>>

InitNew ==
    /\ opts = << >>
    /\ client = NewClient(<<"k">>, opts)
    /\ CallsIdle
    /\ PagesIdle
    /\ ErrorsIdle
    /\ npc = "input"
    /\ nkey \in {<< >>} \cup APIKeys
    /\ nopts \in NewOptionLists
    /\ nres = NoClient
    /\ ConcIdle
    /\ StatsIdle
    /\ TwiceIdle

NextNew == Construct

SpecNew == InitNew /\ [][NextNew]_vars

\* The argument of the last option called name in os, dflt when there is none.
LastArg(os, name, dflt) ==
    LET idx == {j \in 1..Len(os) : os[j].name = name}
    IN IF idx = {} THEN dflt
       ELSE os[CHOOSE j \in idx : \A k \in idx : k <= j].s

\* The network and the URLs the caller asked for (a later option of the
\* same kind replaces an earlier one).
AskedNetwork == LastArg(nopts, "WithNetwork", <<Mainnet>>)[1]
AskedAPIURL == LastArg(nopts, "WithAPIURL", << >>)
AskedRPCURL == LastArg(nopts, "WithRPCURL", << >>)

\* C14: for every option list, a non-empty API (RPC) URL given explicitly
\* is the client's apiURL (rpcURL) whatever the network; a URL not given is
\* the devnet default when the network is Devnet and the mainnet default
\* otherwise; each of the two URLs depends only on its own option and on
\* the network.
C14_ExplicitURLWins ==
    npc = "built" /\ nres.ok
        => /\ nres.apiURL =
                IF AskedAPIURL # << >> THEN AskedAPIURL
                ELSE IF AskedNetwork = Devnet THEN DefaultDevnetAPIURL
                ELSE DefaultMainnetAPIURL
           /\ nres.rpcURL =
                IF AskedRPCURL # << >> THEN AskedRPCURL
                ELSE IF AskedNetwork = Devnet THEN DefaultDevnetRPCURL
                ELSE DefaultMainnetRPCURL

\* An explicit API URL given before the Devnet selection: the API URL is
\* the explicit one, the RPC URL the devnet default.
C14_Witness ==
    /\ npc = "built"
    /\ nopts = <<WithAPIURL(CustomAPIURL), WithNetwork(Devnet)>>
    /\ nres.ok
    /\ nres.apiURL = CustomAPIURL
    /\ nres.rpcURL = DefaultDevnetRPCURL

\* C15: NewClient with an empty API key returns no client and an APIError
\* with StatusCode 400 whatever the options; every Client has a non-empty
\* apiKey.
C15_EmptyKeyRejected ==
    npc = "built"
        => /\ nkey = << >>
                => /\ ~nres.ok
                   /\ nres.err.kind = "APIError"
                   /\ nres.err.StatusCode = 400
           /\ nres.ok => nres.apiKey # << >>

C15_Witness ==
    /\ npc = "built"
    /\ nkey = << >>
    /\ nopts = <<WithAPIURL(CustomAPIURL), WithHTTPClient("custom"), WithMaxRetries(0)>>
    /\ ~nres.ok
    /\ nres.err = APIError(400, "API key is required", <<"client">>)

\* C16: every Client NewClient returns has a request timeout > 0 and a
\* max-retry count >= 0, whatever WithTimeout and WithMaxRetries were given
\* (a Client built around its own retrying transport is considered; a
\* caller's http.Client carries its own settings).
C16_TimeoutAndRetriesInRange ==
    npc = "built" /\ nres.ok /\ nres.httpClient.kind = "retry"
        => /\ nres.httpClient.Timeout > 0
           /\ nres.httpClient.RetryMax >= 0

\* ================================================== APIError and IsAPIError
\* e.IsNotFound() and the other predicates of an APIError e.
IsNotFound(e) == e.StatusCode = StatusNotFound
IsRateLimited(e) == e.StatusCode = StatusTooManyRequests

\* The 5xx band without its upper end.
IsServerError_NoUpper(e) == e.StatusCode >= 500

\* return e.StatusCode >= 500 && e.StatusCode < 600
IsServerError(e) == e.StatusCode >= 500 /\ e.StatusCode < 600
IsClientError(e) == e.StatusCode >= 400 /\ e.StatusCode < 500
IsUnauthorized(e) == e.StatusCode = StatusUnauthorized
IsForbidden(e) == e.StatusCode = StatusForbidden

PredicatesOf(e) ==
    [IsNotFound |-> IsNotFound(e), IsRateLimited |-> IsRateLimited(e),
     IsServerError |-> IsServerError(e), IsClientError |-> IsClientError(e),
     IsUnauthorized |-> IsUnauthorized(e), IsForbidden |-> IsForbidden(e)]

\* An error value is the sequence of the layers of its Unwrap chain,
\* outermost first; nil is the empty sequence.  An APIError has no Unwrap
\* method, so it can only be the innermost layer.
Codes == -1..610
Layers == {WrappedError(w, "", FALSE) : w \in {"fetch asset", "retry"}}
InnerErrors ==
    {APIError(c, "m", <<"/", "assets">>) : c \in Codes}
    \cup {WrappedError("", "connection refused", FALSE)}
Errors ==
    {<< >>}
    \cup {ls \o <<e>> : ls \in UNION {[1..n -> Layers] : n \in 0..MaxDepth},
                        e \in InnerErrors}

\* A type assertion on err itself, without walking the chain.
IsAPIError_NoUnwrap(err) ==
    IF err # << >> /\ Head(err).kind = "APIError"
    THEN [apiErr |-> Head(err), ok |-> TRUE]
    ELSE NoAs

\* errors.As(err, &apiErr): the first *APIError on the chain, if any.
RECURSIVE IsAPIError(_)
IsAPIError(err) ==
    IF err = << >> THEN NoAs
    ELSE IF Head(err).kind = "APIError" THEN [apiErr |-> Head(err), ok |-> TRUE]
    ELSE IsAPIError(Tail(err))

\* apiErr, ok := IsAPIError(eerr)
CallIsAPIError ==
    /\ epc = "input"
    /\ epc' = "as"
    /\ eas' = IsAPIError(eerr)
    /\ UNCHANGED <<callVars, pageVars, newVars, concVars, statVars, twiceVars, eerr, epreds>>

\* if ok: the predicates of apiErr are evaluated.
CallPredicates ==
    /\ epc = "as"
    /\ eas.ok
    /\ epc' = "preds"
    /\ epreds' = PredicatesOf(eas.apiErr)
    /\ UNCHANGED <<callVars, pageVars, newVars, concVars, statVars, twiceVars, eerr, eas>>

InitErr ==
    /\ opts = << >>
    /\ client = NewClient(<<"k">>, opts)
    /\ CallsIdle
    /\ PagesIdle
    /\ ConstructIdle
    /\ epc = "input"
    /\ eerr \in Errors
    /\ epreds = NoPreds
    /\ eas = NoAs
    /\ ConcIdle
    /\ StatsIdle
    /\ TwiceIdle

NextErr ==
    \/ CallIsAPIError
    \/ CallPredicates

SpecErr == InitErr /\ [][NextErr]_vars

\* C17: for every status code, IsClientError holds exactly for 400..499,
\* IsServerError exactly for 500..599, IsNotFound exactly for 404,
\* IsRateLimited exactly for 429, IsUnauthorized exactly for 401 and
\* IsForbidden exactly for 403.
C17_PredicateTruthSets ==
    epc = "preds"
        => LET code == eas.apiErr.StatusCode
           IN /\ epreds.IsClientError <=> code \in 400..499
              /\ epreds.IsServerError <=> code \in 500..599
              /\ epreds.IsNotFound <=> code = 404
              /\ epreds.IsRateLimited <=> code = 429
              /\ epreds.IsUnauthorized <=> code = 401
              /\ epreds.IsForbidden <=> code = 403

\* The predicates of an APIError with status 599, the last server error.
C17_Witness ==
    /\ epc = "preds"
    /\ eas.apiErr.StatusCode = 599
    /\ epreds = [NoPreds EXCEPT !.IsServerError = TRUE]

\* The layers of eerr that are an APIError.
APIErrorLayers == {j \in 1..Len(eerr) : eerr[j].kind = "APIError"}

\* C18: IsAPIError(err) returns the APIError and true when err is an
\* APIError or wraps one at any depth, and (nil, false) when err is nil or
\* has no APIError on its chain.
C18_IsAPIErrorFindsWrapped ==
    epc \in {"as", "preds"}
        => IF APIErrorLayers # {}
           THEN /\ eas.ok
                /\ \E j \in APIErrorLayers : eas.apiErr = eerr[j]
           ELSE eas = [apiErr |-> NoError, ok |-> FALSE]

\* An APIError under two layers of wrapping is found.
C18_Witness ==
    /\ epc = "as"
    /\ Len(eerr) = 3
    /\ eerr[1].kind = "error"
    /\ eerr[2].kind = "error"
    /\ eerr[3] = APIError(404, "m", <<"/", "assets">>)
    /\ eas = [apiErr |-> eerr[3], ok |-> TRUE]

\* ===================================================== verbs, paths, bodies
\* The verb and the path the specification gives each operation.
VerbTable ==
    [o \in Ops |->
        CASE o \in {"GetAsset", "GetAssetsByOwner", "SearchAssets", "GetAssetBatch",
                    "GetTokenHolders", "GetPriorityFeeEstimate",
                    "GetPriorityFeeEstimateForTransaction", "CreateWebhook"} -> "POST"
          [] o \in {"ListWebhooks", "GetWebhook"} -> "GET"
          [] o = "UpdateWebhook" -> "PUT"
          [] o = "DeleteWebhook" -> "DELETE"]

PathTable(id) ==
    [o \in Ops |->
        CASE o \in {"GetAsset", "GetAssetsByOwner"} -> <<"/", "assets">>
          [] o = "SearchAssets" -> <<"/", "assets", "/", "search">>
          [] o = "GetAssetBatch" -> <<"/", "assets", "/", "batch">>
          [] o = "GetTokenHolders" -> <<"/", "token-holders">>
          [] o \in {"GetPriorityFeeEstimate", "GetPriorityFeeEstimateForTransaction"}
               -> <<"/", "priority-fee">>
          [] o \in {"CreateWebhook", "ListWebhooks"} -> <<"/", "webhooks">>
          [] o \in {"GetWebhook", "UpdateWebhook", "DeleteWebhook"}
               -> <<"/", "webhooks", "/">> \o id]

\* C19: every request an operation builds or sends has the one verb and
\* the one path template of that operation, whatever its arguments: POST
\* /assets, /assets/search, /assets/batch, /token-holders, /priority-fee,
\* /webhooks; GET /webhooks and /webhooks/{id}; PUT /webhooks/{id};
\* DELETE /webhooks/{id}.
C19_FixedVerbAndPath ==
    /\ req # NoReq
          => /\ req.method = VerbTable[call.op]
             /\ req.path = PathTable(call.a.id)[call.op]
    /\ wire # NoReq
          => /\ wire.method = VerbTable[call.op]
             /\ wire.path = PathTable(call.a.id)[call.op]

\* UpdateWebhook("a", req) is on the wire as PUT /webhooks/a.
C19_Witness ==
    /\ wire # NoReq
    /\ call.op = "UpdateWebhook"
    /\ wire.method = "PUT"
    /\ wire.path = <<"/", "webhooks", "/", "a">>

\* C20: a request has the header Content-Type: application/json exactly
\* when it has a body; POST and PUT requests have a body and the header,
\* GET and DELETE requests have neither.
C20_ContentTypeIffBody ==
    \A r \in {req, wire} \ {NoReq} :
        /\ r.contentType = "application/json" <=> r.body.present
        /\ r.contentType \in {"application/json", ""}
        /\ r.method \in {"POST", "PUT"}
              => r.body.present /\ r.contentType = "application/json"
        /\ r.method \in {"GET", "DELETE"}
              => ~r.body.present /\ r.contentType = ""

\* DeleteWebhook("a") is on the wire without body and without the header.
C20_Witness ==
    /\ wire # NoReq
    /\ call.op = "DeleteWebhook"
    /\ wire.method = "DELETE"
    /\ ~wire.body.present
    /\ wire.contentType = ""

MintOf(t) == IF t = 1 THEN <<"m1">> ELSE <<"m2">>

\* What the server answers to one attempt: a page, a client error or a
\* server error.
ConcPages == {[items |-> <<"h1">>, cursor |-> "p2"], [items |-> <<"h2">>, cursor |-> ""]}
ServerAnswers ==
    {[status |-> 200, page |-> p] : p \in ConcPages}
    \cup {[status |-> st, page |-> NoPage] : st \in {StatusNotFound, 500}}

\* Length of the marshalled request body.
BodyLen == 1

\* One cell for all calls: the locals kept in package-level variables.
LocalsOf_Shared(t) == 1

\* The cell holding the locals of call t: cursor and allHolders are declared
\* in GetAllTokenHolders, the reader is created in the page call and the
\* attempt counter is a local of the transport's Do, so each call has its
\* own.
LocalsOf(t) == t

\* GetAllTokenHolders is entered: var allHolders, var cursor.
CStart(t) ==
    /\ cpc[t] = "off"
    /\ cpc' = [cpc EXCEPT ![t] = "loop"]
    /\ ccursor' = [ccursor EXCEPT ![LocalsOf(t)] = ""]
    /\ cacc' = [cacc EXCEPT ![LocalsOf(t)] = << >>]
    /\ UNCHANGED <<callVars, pageVars, newVars, errVars, statVars, twiceVars, cattempt, cpos, csent, cans, cres>>

\* Top of the loop: the page call marshals its body, makes a reader over
\* it and enters the transport's Do.
CPageCall(t) ==
    /\ cpc[t] = "loop"
    /\ cpc' = [cpc EXCEPT ![t] = "send"]
    /\ cattempt' = [cattempt EXCEPT ![LocalsOf(t)] = 0]
    /\ cpos' = [cpos EXCEPT ![LocalsOf(t)] = 0]
    /\ UNCHANGED <<callVars, pageVars, newVars, errVars, statVars, twiceVars, ccursor, cacc, csent, cans, cres>>

\* One attempt is sent.  The first attempt reads the reader to its end
\* (the transport buffers the body and replays the buffer on retries).
CSend(t) ==
    /\ cpc[t] = "send"
    /\ Len(cans[t]) < MaxAnswers
    /\ cpc' = [cpc EXCEPT ![t] = "wait"]
    /\ cattempt' = [cattempt EXCEPT ![LocalsOf(t)] = @ + 1]
    /\ cpos' = [cpos EXCEPT ![LocalsOf(t)] = BodyLen]
    /\ csent' = [csent EXCEPT ![t] =
            Append(@, [body |-> ReqBodyOf(MintOf(t), [Cursor |-> ccursor[LocalsOf(t)],
                                                     Limit |-> MaxPerPage]),
                       attempt |-> cattempt[LocalsOf(t)] + 1,
                       bodyFrom |-> IF cattempt[LocalsOf(t)] = 0 THEN cpos[LocalsOf(t)] ELSE 0])]
    /\ UNCHANGED <<callVars, pageVars, newVars, errVars, statVars, twiceVars, ccursor, cacc, cans, cres>>

\* The server answers the attempt: the transport retries or returns, and
\* on a return the loop body runs to its end.
CAnswer(t, a) ==
    /\ cpc[t] = "wait"
    /\ cans' = [cans EXCEPT ![t] = Append(@, a)]
    /\ LET cr == CheckRetry("", [status |-> a.status, body |-> ""], "")
           remain == client.httpClient.RetryMax - (cattempt[LocalsOf(t)] - 1)
           c == LocalsOf(t)
       IN IF cr.retry /\ remain > 0
          THEN /\ cpc' = [cpc EXCEPT ![t] = "send"]
               /\ UNCHANGED <<ccursor, cacc, cres>>
          ELSE IF cr.retry
          THEN /\ cres' = [cres EXCEPT ![t] =
                        ErrorReturn(cacc[c], WrappedError("do request", "", TRUE))]
               /\ cpc' = [cpc EXCEPT ![t] = "done"]
               /\ UNCHANGED <<ccursor, cacc>>
          ELSE IF IsErrorStatus(a.status)
          THEN /\ cres' = [cres EXCEPT ![t] =
                        ErrorReturn(cacc[c], APIError(a.status, "", <<"/", "token-holders">>))]
               /\ cpc' = [cpc EXCEPT ![t] = "done"]
               /\ UNCHANGED <<ccursor, cacc>>
          ELSE /\ cacc' = [cacc EXCEPT ![c] = Accumulate(@, a.page)]
               /\ IF StopsAt(a.page)
                  THEN /\ cres' = [cres EXCEPT ![t] =
                                [holders |-> Accumulate(cacc[c], a.page), err |-> NoError]]
                       /\ cpc' = [cpc EXCEPT ![t] = "done"]
                       /\ UNCHANGED ccursor
                  ELSE /\ ccursor' = [ccursor EXCEPT ![c] = a.page.cursor]
                       /\ cpc' = [cpc EXCEPT ![t] = "loop"]
                       /\ UNCHANGED cres
    /\ UNCHANGED <<callVars, pageVars, newVars, errVars, statVars, twiceVars, cattempt, cpos, csent>>

InitConc ==
    /\ opts = <<WithMaxRetries(1)>>
    /\ client = NewClient(<<"k">>, opts)
    /\ CallsIdle
    /\ PagesIdle
    /\ ConstructIdle
    /\ ErrorsIdle
    /\ ConcIdle
    /\ StatsIdle
    /\ TwiceIdle

NextConc ==
    \/ \E t \in Threads : CStart(t)
    \/ \E t \in Threads : CPageCall(t)
    \/ \E t \in Threads : CSend(t)
    \/ \E t \in Threads, a \in ServerAnswers : CAnswer(t, a)

SpecConc == InitConc /\ [][NextConc]_vars

\* What GetAllTokenHolders(m) does when it runs alone on a client with
\* retry budget rmax and the server gives it the answers as, one per
\* attempt: the requests it sends (the one awaiting an answer included),
\* whether it has returned, and what it returned.  cur, acc, att and snt
\* are the cursor, the holders gathered, the attempts made for the current
\* page and the requests sent so far.
RECURSIVE AloneRun(_, _, _, _, _, _, _)
AloneRun(m, rmax, as, cur, acc, att, snt) ==
    LET request == [body |-> [mint |-> m, hasCursor |-> cur # "", cursor |-> cur,
                             hasLimit |-> TRUE, limit |-> 10000],
                    attempt |-> att + 1, bodyFrom |-> 0]
        out == Append(snt, request)
    IN IF as = << >> THEN [sent |-> out, done |-> FALSE, res |-> NoAllReturn]
       ELSE LET a == Head(as)
            IN IF a.status = 429 \/ a.status >= 500
               THEN IF att < rmax
                    THEN AloneRun(m, rmax, Tail(as), cur, acc, att + 1, out)
                    ELSE [sent |-> out, done |-> TRUE,
                          res |-> [holders |-> << >>,
                                   err |-> WrappedError("do request", "", TRUE)]]
               ELSE IF a.status >= 400
               THEN [sent |-> out, done |-> TRUE,
                     res |-> [holders |-> << >>,
                              err |-> APIError(a.status, "", <<"/", "token-holders">>)]]
               ELSE IF FinalPage(a.page)
               THEN [sent |-> out, done |-> TRUE,
                     res |-> [holders |-> acc \o a.page.items, err |-> NoError]]
               ELSE AloneRun(m, rmax, Tail(as), a.page.cursor, acc \o a.page.items, 0, out)

Alone(t) == AloneRun(MintOf(t), R, cans[t], "", << >>, 0, << >>)

\* C22: under every interleaving of two calls on one client, each call
\* sends the requests and returns the result it would send and return if
\* it ran alone against the answers the server gave to it.
C22_CallsIndependent ==
    \A t \in Threads :
        /\ cpc[t] = "wait" => csent[t] = Alone(t).sent /\ ~Alone(t).done
        /\ cpc[t] = "done"
              => /\ Alone(t).done
                 /\ csent[t] = Alone(t).sent
                 /\ cres[t] = Alone(t).res

\* Both calls are in flight at once: call 1 on the retry of its first
\* page, call 2 on its second page with the cursor of its first.
C22_Witness ==
    /\ cpc[1] = "wait" /\ cpc[2] = "wait"
    /\ Len(csent[1]) = 2 /\ csent[1][2].attempt = 2 /\ ~csent[1][2].body.hasCursor
    /\ Len(csent[2]) = 2 /\ csent[2][2].attempt = 1 /\ csent[2][2].body.cursor = "p2"
    /\ cacc[2] = <<"h1">> /\ cacc[1] = << >>

\* ======================================================== encoding failure
\* C23: when the payload of an operation cannot be serialized to JSON the
\* operation returns no value and an error that wraps the serialization
\* cause and is not an APIError (IsAPIError is false), and no request is
\* built or sent.
C23_MarshalFailureIsLocal ==
    (pc = "done" /\ call.a.bad /\ BodyOf(call.op, call.a).present
        /\ ~MissingRequired(call))
        => /\ result.value = "<nil>"
           /\ result.err.kind = "error"
           /\ result.err.cause = "json: unsupported value"
           /\ ~IsAPIError(<<result.err, WrappedError("", result.err.cause, FALSE)>>).ok
           /\ req = NoReq /\ wire = NoReq
           /\ attempt = 0 /\ sent = 0

\* UpdateWebhook("a", req) with a request that cannot be marshalled.
C23_Witness ==
    /\ pc = "done"
    /\ call.op = "UpdateWebhook"
    /\ call.a.bad
    /\ call.a.id = <<"a">>
    /\ result.err = WrappedError("marshal request", "json: unsupported value", FALSE)
    /\ sent = 0

\* ======================================================= the same call twice
\* The read-only operations, with and without their required parameter.
ReadOnlyInputs ==
    {in \in CallInputs :
        /\ in.op \in {"GetAsset", "GetAssetsByOwner", "SearchAssets", "GetTokenHolders",
                       "GetWebhook", "ListWebhooks"}
        /\ ~in.a.bad}

\* The retry counter of the previous call carried into the next one.
AttemptsAtEntry_Carried(prev) == prev

\* The counters of the retry loop are locals of c.httpClient.Do: every call
\* starts from zero whatever the previous call (prev) left.
AttemptsAtEntry(prev) == 0

\* What a finished call did.
RunRecord == [call |-> call, wire |-> wire, sent |-> sent, attempt |-> attempt,
              result |-> result]

\* The first call; the second call repeats its operation and arguments.
TwiceCall(in) ==
    /\ runs < 2
    /\ runs = 1 => in = [op |-> first.call.op, a |-> first.call.a]
    /\ Call(in, "")

\* The server gives its one answer.
TwiceRespond ==
    Respond(stub.status, stub.body)

\* The call returns to the caller; nothing of it is kept but what the
\* caller received.
TwiceReturn ==
    /\ pc = "done"
    /\ runs < 2
    /\ runs' = runs + 1
    /\ first' = IF runs = 0 THEN RunRecord ELSE first
    /\ second' = IF runs = 1 THEN RunRecord ELSE second
    /\ pc' = "idle"
    /\ call' = NoCall
    /\ req' = NoReq
    /\ ctxErr' = ""
    /\ early' = FALSE
    /\ i' = AttemptsAtEntry(i)
    /\ attempt' = 0
    /\ resp' = NoResp
    /\ respBody' = Unread
    /\ doErr' = ""
    /\ outcomes' = << >>
    /\ sent' = 0
    /\ wire' = NoReq
    /\ dr' = NoReturn
    /\ result' = NoResult
    /\ UNCHANGED <<pageVars, newVars, errVars, concVars, statVars, client, opts, stub>>

InitTwice ==
    /\ opts \in OptionLists
    /\ client \in {NewClient(k, opts) : k \in APIKeys}
    /\ CallsIdle
    /\ PagesIdle
    /\ ConstructIdle
    /\ ErrorsIdle
    /\ ConcIdle
    /\ StatsIdle
    /\ stub \in [status : Statuses, body : Bodies]
    /\ runs = 0
    /\ first = NoRun
    /\ second = NoRun

NextTwice ==
    \/ \E in \in ReadOnlyInputs : TwiceCall(in)
    \/ BeginAttempt
    \/ TwiceRespond
    \/ Decide
    \/ BackoffElapsed
    \/ ReadBody
    \/ Classify
    \/ TwiceReturn

SpecTwice == InitTwice /\ [][NextTwice]_vars

C25_PageCallsChained ==
    /\ Len(pageReqs) <= Len(pages) + 1
    /\ gpc = "wait" => Len(pageReqs) = Len(pages) + 1
    /\ \A k \in 1..Len(pageReqs) :
          /\ pageReqs[k].mint = mint
          /\ pageReqs[k].hasLimit /\ pageReqs[k].limit = 10000
          /\ k = 1 => ~pageReqs[k].hasCursor
          /\ k > 1 => /\ pageReqs[k].hasCursor
                       /\ pageReqs[k].cursor = pages[k - 1].cursor
                       /\ pages[k - 1].cursor # ""

\* The third request is out with cursor "p3" after pages with cursors "p2"
\* and "p3" came back.
C25_Witness ==
    /\ gpc = "wait"
    /\ Len(pageReqs) = 3
    /\ Len(pages) = 2
    /\ ~pageReqs[1].hasCursor
    /\ pageReqs[2].cursor = "p2"
    /\ pageReqs[3].cursor = "p3"
    /\ pageReqs[3].mint = <<"m">>

\* ============================================================== termination
\* The steps GetAllTokenHolders takes by itself are taken; whether and what
\* the server answers is not up to the program.
SpecPagesLive == SpecPages /\ WF_vars(PageCall) /\ WF_vars(AfterPage)

\* A page call was answered with an error (a cancelled context included),
\* an empty cursor or no items.
FinalAnswered ==
    gpc = "got" /\ (pageRet.err # NoError \/ FinalPage(pageRet.page))
FinalAnswerSeen ==
    \/ pageRet.err # NoError
    \/ pages # << >> /\ FinalPage(pages[Len(pages)])

\* C26: GetAllTokenHolders returns once a page call is answered with an
\* error, an empty cursor or no items, and it returns only then: as long
\* as every page has a cursor and an item it goes on calling, with no limit
\* of its own on the number of calls.
C26_ReturnsIffFinalAnswer ==
    /\ FinalAnswered ~> gpc = "done"
    /\ [](gpc = "done" => FinalAnswerSeen)

\* After as many pages as the model allows, each with a cursor and items,
\* the run has not returned and is at the top of the loop again.
C26_Witness ==
    /\ gpc = "loop"
    /\ Len(pages) = MaxPages
    /\ \A k \in 1..Len(pages) : ~FinalPage(pages[k])
    /\ allRet = NoAllReturn

\* ==================================================== GetAssetBatch, no ids
\* C27: GetAssetBatch with an empty or nil list of ids returns an empty
\* list and a nil error and no request is built or sent, whereas the other
\* operations answer a missing required parameter with an APIError of
\* status 400.
C27_EmptyBatchIsEmptyResult ==
    /\ (pc # "idle" /\ call.op = "GetAssetBatch" /\ call.a.n1 = 0)
          => /\ pc = "done"
             /\ result = [value |-> "[]", err |-> NoError]
             /\ req = NoReq /\ wire = NoReq
             /\ attempt = 0 /\ sent = 0
    /\ (pc # "idle" /\ call.op # "GetAssetBatch" /\ MissingRequired(call))
          => /\ result.err.kind = "APIError"
             /\ result.err.StatusCode = 400

\* GetAssetBatch(ctx, nil) has returned, here with a context that is done.
C27_Witness ==
    /\ pc = "done"
    /\ call.op = "GetAssetBatch"
    /\ call.a.n1 = 0
    /\ ctxErr = "context canceled"
    /\ result = [value |-> "[]", err |-> NoError]
    /\ sent = 0

\* ===================================================== CreateWebhook default
\* C28: a CreateWebhook request that passes validation is sent with
\* webhookType "enhanced" when its WebhookType is empty and with its own
\* WebhookType otherwise; a request rejected by validation is not modified
\* and not sent.
C28_WebhookTypeDefault ==
    (pc # "idle" /\ call.op = "CreateWebhook")
        => /\ MissingRequired(call)
                => call.reqType = call.a.whType /\ req = NoReq /\ wire = NoReq
           /\ ~MissingRequired(call) /\ ~call.a.bad
                => LET type == IF call.a.whType = "" THEN "enhanced" ELSE call.a.whType
                   IN /\ req.body.whType = type
                      /\ call.reqType = type
                      /\ wire # NoReq => wire.body.whType = type

\* A valid request without WebhookType is on the wire as "enhanced".
C28_Witness ==
    /\ call.op = "CreateWebhook"
    /\ call.a.whType = ""
    /\ wire # NoReq
    /\ wire.body.whType = "enhanced"
    /\ call.reqType = "enhanced"

\* ============================================================ WithHTTPClient
\* C29: a Client built with WithHTTPClient uses the supplied client as it
\* is, whatever WithMaxRetries and WithTimeout say: a call invokes it once,
\* and a 429 or 5xx response comes back at once as an APIError.
C29_CustomClientNoRetry ==
    ~Retrying
        => /\ client.httpClient.kind = "custom"
           /\ attempt <= 1 /\ sent <= 1
           /\ pc = "done" /\ req # NoReq => attempt = 1
           /\ (pc = "done" /\ respBody # Unread
                  /\ (resp.status = 429 \/ resp.status \in 500..599))
                => /\ outcomes = <<resp.status>>
                   /\ dr.body = "<nil>"
                   /\ dr.err = APIError(resp.status, respBody, req.path)

\* WithHTTPClient together with WithMaxRetries: one attempt, the 500 comes
\* back as an APIError.
C29_Witness ==
    /\ pc = "done"
    /\ opts = <<WithHTTPClient("custom"), WithMaxRetries(MaxRetries)>>
    /\ resp.status = 500
    /\ attempt = 1 /\ sent = 1
    /\ dr.err.kind = "APIError"
    /\ dr.err.StatusCode = 500

\* ================================================== CalculateTopHolderStats
\* Holders with small balances (sums stay far from the int64 range) and
\* topN on both sides of 0 and of the length of the list.
HolderRecords == [Owner : {"a", "b"}, Balance : {0, 1, 4}]
HolderLists == UNION {[1..n -> HolderRecords] : n \in 0..MaxHolders}
TopNs == -1..(MaxHolders + 1)

RECURSIVE SumBalances(_)
SumBalances(hs) == IF hs = << >> THEN 0 ELSE Head(hs).Balance + SumBalances(Tail(hs))

\* topCount := topN; if topCount > len(holders) { topCount = len(holders) }
TopCount(holders, topN) == IF topN > Len(holders) THEN Len(holders) ELSE topN

\* CalculateTopHolderStats(holders, topN): the stats returned, or a panic
\* when make([]TokenHolder, topCount) is given a negative length.
CalculateTopHolderStats(holders, topN) ==
    IF Len(holders) = 0 THEN [panic |-> FALSE, stats |-> NoStats]
    ELSE LET totalSupply == SumBalances(holders)
             topCount == TopCount(holders, topN)
         IN IF topCount < 0 THEN [panic |-> TRUE, stats |-> NoStats]
            ELSE LET topHolders == SubSeq(holders, 1, topCount)
                     topBalance == SumBalances(topHolders)
                 IN [panic |-> FALSE,
                     stats |-> [TotalHolders |-> Len(holders),
                                TopHolders |-> topHolders,
                                TopHoldersBalance |-> topBalance,
                                TopHoldersPercent |->
                                    IF totalSupply > 0
                                    THEN (topBalance * 100) \div totalSupply ELSE 0,
                                TotalSupply |-> totalSupply]]

\* stats := CalculateTopHolderStats(sholders, stopN); holders is only read.
Calculate ==
    /\ spc = "input"
    /\ LET out == CalculateTopHolderStats(sholders, stopN)
       IN /\ spc' = IF out.panic THEN "panicked" ELSE "returned"
          /\ sstats' = out.stats
    /\ UNCHANGED <<callVars, pageVars, newVars, errVars, concVars, twiceVars, sholders, stopN>>

InitStats ==
    /\ opts = << >>
    /\ client = NewClient(<<"k">>, opts)
    /\ CallsIdle
    /\ PagesIdle
    /\ ConstructIdle
    /\ ErrorsIdle
    /\ ConcIdle
    /\ TwiceIdle
    /\ spc = "input"
    /\ sholders \in HolderLists
    /\ stopN \in TopNs
    /\ sstats = NoStats

NextStats == Calculate

SpecStats == InitStats /\ [][NextStats]_vars

\* C30: for every holders list and every integer topN the call completes
\* with TotalHolders = len(holders), TopHolders the first min(topN,
\* len(holders)) holders in input order (0 <= that number <= len(holders)),
\* TopHoldersBalance the sum of their balances and TotalSupply the sum of
\* all balances; an empty list gives all-zero stats.
C30_TopHolderStats ==
    spc # "input"
        => /\ spc = "returned"
           /\ sholders # << >> =>
              LET n == IF stopN < Len(sholders) THEN stopN ELSE Len(sholders)
              IN /\ 0 <= n /\ n <= Len(sholders)
                 /\ Len(sstats.TopHolders) = n
                 /\ sstats.TopHolders = SubSeq(sholders, 1, n)
                 /\ sstats.TopHoldersBalance = SumBalances(SubSeq(sholders, 1, n))
                 /\ sstats.TotalSupply = SumBalances(sholders)
                 /\ sstats.TotalHolders = Len(sholders)
           /\ sholders = << >> => sstats = NoStats


====
